---- MODULE Spec2Model ----
(***************************************************************************)
(* A model of genexpatlas/genexpatlas.py: the accession validator, the     *)
(* configuration translator, the header rewriter, the experiment fetcher   *)
(* with its filename fallback, the search client and the two batch         *)
(* operations.                                                             *)
(*                                                                         *)
(* Python strings that the code matches, splits or concatenates are        *)
(* sequences of one-character strings, so that a regular expression, a     *)
(* split and a concatenation are computed and not assumed.                 *)
(***************************************************************************)
EXTENDS Integers, Sequences, FiniteSets, TLC

VARIABLES
    op,            \* the public function the caller invoked
    args,          \* its arguments
    pc,            \* the control point reached
    i,             \* the index of the item a batch loop is at (1-based)
    file_name,     \* get_atlas_experiment's local file_name
    loaded_data,   \* the column names of the table read_csv returned
    loaded_config, \* the parsed configuration document
    net,           \* every retrieval requested so far, in order
    fs,            \* the directories created and the files written
    result,        \* the value returned (or yielded so far)
    skipped,       \* the batch items whose exception was swallowed
    warnings,      \* the warnings surfaced to the caller
    err            \* the exception that left the call, [kind |-> "none"] if none

vars == <<op, args, pc, i, file_name, loaded_data, loaded_config, net, fs,
          result, skipped, warnings, err>>

----------------------------------------------------------------------------
(* Bounds of the model. *)

\* the longest batch input
MaxBatch == 2
\* the most contrast objects in one configuration document
MaxContrasts == 3
\* the most '.'-separated segments after a header's prefix
MaxSegs == 2
\* the most columns of a table
MaxCols == 2
\* the most experiments in one search response
MaxFound == 2
\* the most search terms
MaxTerms == 2

----------------------------------------------------------------------------
(* Strings. *)

Letters ==
    {"a","b","c","d","e","f","g","h","i","j","k","l","m","n","o","p","q","r",
     "s","t","u","v","w","x","y","z","A","B","C","D","E","F","G","H","I","J",
     "K","L","M","N","O","P","Q","R","S","T","U","V","W","X","Y","Z"}

\* \d of Python 2's re (no UNICODE flag)
DigitChars == {"0","1","2","3","4","5","6","7","8","9"}

\* \w of Python 2's re (no UNICODE flag)
WordChars == Letters \cup DigitChars \cup {"_"}

\* the characters of a sequence as one string value
RECURSIVE Str(_)
Str(s) == IF s = <<>> THEN "" ELSE Head(s) \o Str(Tail(s))

\* str.split(sep) for a one-character separator: always at least one piece
RECURSIVE Split(_, _)
Split(s, sep) ==
    IF \A k \in 1..Len(s) : s[k] # sep
    THEN <<s>>
    ELSE LET k == CHOOSE k \in 1..Len(s) :
                      s[k] = sep /\ \A j \in 1..(k - 1) : s[j] # sep
         IN  <<SubSeq(s, 1, k - 1)>> \o Split(SubSeq(s, k + 1, Len(s)), sep)

\* the end of the longest run of digits of s that starts at position k
\* (k - 1 when s[k] is no digit)
RECURSIVE DigitRunEnd(_, _)
DigitRunEnd(s, k) ==
    IF k <= Len(s) /\ s[k] \in DigitChars THEN DigitRunEnd(s, k + 1) ELSE k - 1

----------------------------------------------------------------------------
(* AccessionValidator *)

\* re.match(r"^E-\w{4}-\d+$", accession): '$' also matches before a final
\* newline
is_valid_experiment_accession(accession) ==
    /\ Len(accession) >= 8
    /\ accession[1] = "E"
    /\ accession[2] = "-"
    /\ \A k \in 3..6 : accession[k] \in WordChars
    /\ accession[7] = "-"
    /\ LET e == DigitRunEnd(accession, 8)
       IN  /\ e >= 8
           /\ \/ e = Len(accession)
              \/ e = Len(accession) - 1 /\ accession[Len(accession)] = "\n"

----------------------------------------------------------------------------
(* Python values and exceptions. *)

\* a list and a dict are told apart by type(x) is list
PyList(s) == [type |-> "list", v |-> s]
PyDict(d) == [type |-> "dict", v |-> d]
IsList(x) == x.type = "list"

EmptyDict == [k \in {} |-> <<>>]

\* a faulty assignment that keeps the entry a key already has
DictSetKeepFirst(d, k, v) ==
    [x \in DOMAIN d \cup {k} |-> IF x \in DOMAIN d THEN d[x] ELSE v]
\* d[k] = v
DictSet(d, k, v) == [x \in DOMAIN d \cup {k} |-> IF x = k THEN v ELSE d[x]]

NoErr == [kind |-> "none", msg |-> ""]
Raise(kind, msg) == [kind |-> kind, msg |-> msg]

\* the classes an except clause naming cls catches: urllib2.URLError and
\* IOError are IOErrors, pandas' ParserError is a ValueError, KeyError,
\* IndexError and xml's ExpatError are neither
IsInstance(kind, cls) ==
    \/ kind = cls
    \/ cls = "IOError" /\ kind = "URLError"
    \/ cls = "ValueError" /\ kind = "ParserError"

----------------------------------------------------------------------------
(* ConfigTranslator.  A computation that may raise is a record             *)
(* [raised, value]: once raised, the rest of the computation is skipped.   *)

Ok(v) == [raised |-> "none", value |-> v]
Raised(kind) == [raised |-> kind, value |-> EmptyDict]

\* compare_dict[c['@id']] = c['name']
AddContrast(acc, c) ==
    IF acc.raised # "none" THEN acc
    ELSE IF {"@id", "name"} \subseteq DOMAIN c
         THEN Ok(DictSet(acc.value, c["@id"], c["name"]))
         ELSE Raised("KeyError")

\* for ind_contrast in contrast: ...
RECURSIVE AddContrastList(_, _)
AddContrastList(acc, cs) ==
    IF cs = <<>> THEN acc
    ELSE AddContrastList(AddContrast(acc, Head(cs)), Tail(cs))

\* the body of the loop over contrasts.items(): a list of contrasts or one
AddContrastValue(acc, contrast) ==
    IF IsList(contrast) THEN AddContrastList(acc, contrast.v)
    ELSE AddContrast(acc, contrast.v)

\* for name, contrast in <dict>['contrasts'].items(): ...
\* items is the sequence of <<name, contrast>> pairs of the ordered mapping
RECURSIVE AddContrastItems(_, _)
AddContrastItems(acc, items) ==
    IF items = <<>> THEN acc
    ELSE AddContrastItems(AddContrastValue(acc, Head(items)[2]), Tail(items))

\* one analytics dict: item['contrasts'] raises KeyError when absent
AddAnalytics(acc, item) ==
    IF acc.raised # "none" THEN acc
    ELSE IF "contrasts" \in DOMAIN item
         THEN AddContrastItems(acc, item["contrasts"])
         ELSE Raised("KeyError")

\* for item in parsed_config['configuration']['analytics']: ...
RECURSIVE AddAnalyticsList(_, _)
AddAnalyticsList(acc, items) ==
    IF items = <<>> THEN acc
    ELSE AddAnalyticsList(AddAnalytics(acc, Head(items)), Tail(items))

get_comparison_translations(parsed_config) ==
    LET analytics == parsed_config.configuration.analytics
    IN  IF IsList(analytics)
        THEN AddAnalyticsList(Ok(EmptyDict), analytics.v)
        ELSE AddAnalytics(Ok(EmptyDict), analytics.v)

----------------------------------------------------------------------------
(* HeaderRewriter *)

\* re.match(r"^g\d+_g\d+\..*", header)
IsContrastHeader(header) ==
    /\ Len(header) >= 6
    /\ header[1] = "g"
    /\ LET a == DigitRunEnd(header, 2)
       IN  /\ a >= 2
           /\ a + 2 <= Len(header)
           /\ header[a + 1] = "_"
           /\ header[a + 2] = "g"
           /\ LET b == DigitRunEnd(header, a + 3)
              IN  /\ b >= a + 3
                  /\ b + 1 <= Len(header)
                  /\ header[b + 1] = "."

\* translation_table[header.split('.')[0]] + '.' + header.split('.')[1]
TranslatedHeader(header, translation_table) ==
    translation_table[Split(header, ".")[1]] \o <<".">> \o Split(header, ".")[2]

\* the loop building trans_dict: a KeyError when a prefix has no translation
RECURSIVE BuildTransDict(_, _, _)
BuildTransDict(acc, columns, translation_table) ==
    IF columns = <<>> \/ acc.raised # "none" THEN acc
    ELSE LET header == Head(columns)
         IN  IF ~IsContrastHeader(header)
             THEN BuildTransDict(acc, Tail(columns), translation_table)
             ELSE IF Split(header, ".")[1] \notin DOMAIN translation_table
                  THEN Raised("KeyError")
                  ELSE BuildTransDict(
                           Ok(DictSet(acc.value, header,
                                      TranslatedHeader(header, translation_table))),
                           Tail(columns), translation_table)

\* DataFrame.rename(columns=trans_dict): a column that is a key is replaced
Rename(columns, trans_dict) ==
    [k \in 1..Len(columns) |->
        IF columns[k] \in DOMAIN trans_dict THEN trans_dict[columns[k]]
        ELSE columns[k]]

\* the table is its column names: rename touches nothing else
translate_data_headers(experiment_data, translation_table) ==
    LET t == BuildTransDict(Ok(EmptyDict), experiment_data, translation_table)
    IN  IF t.raised # "none" THEN [raised |-> t.raised, value |-> <<>>]
        ELSE Ok(Rename(experiment_data, t.value))

----------------------------------------------------------------------------
(* The inputs the caller and the remote service can supply. *)

\* every sequence over S of a length in lo..hi
SeqsOf(S, lo, hi) == UNION {[1..n -> S] : n \in lo..hi}

\* every way to cut a sequence into consecutive non-empty chunks
RECURSIVE Splits(_)
Splits(s) ==
    IF s = <<>> THEN {<<>>}
    ELSE UNION {{<<SubSeq(s, 1, k)>> \o rest :
                    rest \in Splits(SubSeq(s, k + 1, Len(s)))} : k \in 1..Len(s)}

\* every sequence whose k-th element is drawn from the k-th set
RECURSIVE SeqProduct(_)
SeqProduct(sets) ==
    IF sets = <<>> THEN {<<>>}
    ELSE {<<h>> \o t : h \in Head(sets), t \in SeqProduct(Tail(sets))}

g1_g2 == <<"g", "1", "_", "g", "2">>
g12_g3 == <<"g", "1", "2", "_", "g", "3">>

ContrastIds == {g1_g2, g12_g3}
ContrastNames == {<<"K", "O">>, <<"W", "T">>}

Contrast(id, name) == ("@id" :> id) @@ ("name" :> name)
Contrasts == {Contrast(id, name) : id \in ContrastIds, name \in ContrastNames}

\* xmltodict gives one element as a dict and repeated elements as a list; a
\* one-element list is what a caller normalising the document would pass
ContrastForms(chunk) ==
    IF Len(chunk) = 1 THEN {PyDict(chunk[1]), PyList(chunk)} ELSE {PyList(chunk)}

GroupTag(k) == IF k = 1 THEN "contrast" ELSE "contrast" \o Str([j \in 1..(k - 1) |-> "_"])

\* the contrasts mappings (as item sequences) holding the contrasts of flat
ContrastItemsOf(flat) ==
    UNION {{[k \in 1..Len(vals) |-> <<GroupTag(k), vals[k]>>] :
                vals \in SeqProduct([k \in 1..Len(chunks) |-> ContrastForms(chunks[k])])} :
           chunks \in Splits(flat)}

AnalyticsForms(items) ==
    IF Len(items) = 1 THEN {PyDict(items[1]), PyList(items)} ELSE {PyList(items)}

Document(analytics) == [configuration |-> [analytics |-> analytics]]

\* the analytics values holding the contrasts mapping items, in every shape
AnalyticsOf(items) ==
    UNION {AnalyticsForms([k \in 1..Len(parts) |-> ("contrasts" :> parts[k])]) :
           parts \in Splits(items)}

\* documents lacking an expected field
MalformedDocuments ==
    {Document(PyDict("contrasts" :> <<<<"contrast", PyDict("@id" :> g1_g2)>>>>)),
     Document(PyDict("contrasts" :>
        <<<<"contrast", PyList(<<Contrast(g1_g2, <<"K", "O">>), ("name" :> <<"W", "T">>)>>)>>>>)),
     Document(PyDict("assay_groups" :> <<>>)),
     Document(PyList(<<("contrasts" :> <<<<"contrast", PyDict(Contrast(g1_g2, <<"K", "O">>))>>>>),
                       ("assay_groups" :> <<>>)>>))}

HeaderPrefixes == {g1_g2, g12_g3, <<"g", "1", "_", "g">>, <<"s", "_", "m">>}
HeaderSegments == {<<"p">>, <<"v">>, <<>>}

\* prefix '.' seg1 '.' seg2 ...
RECURSIVE JoinSegments(_, _)
JoinSegments(prefix, segs) ==
    IF segs = <<>> THEN prefix
    ELSE JoinSegments(prefix \o <<".">> \o Head(segs), Tail(segs))

Headers(n) ==
    {JoinSegments(p, segs) : p \in HeaderPrefixes, segs \in SeqsOf(HeaderSegments, 0, n)}

TranslationTables ==
    {(g1_g2 :> <<"K", "O">>) @@ (g12_g3 :> <<"W", "T">>),
     (g1_g2 :> <<"K", ".", "O">>) @@ (g12_g3 :> <<"K", "O">>),
     (g1_g2 :> <<"K", "O">>)}

----------------------------------------------------------------------------
(* The state before a call and the two pure functions called on their own. *)

Called(o, a, start) ==
    /\ op = o
    /\ args = a
    /\ pc = start
    /\ i = 1
    /\ file_name = <<>>
    /\ loaded_data = <<>>
    /\ loaded_config = <<>>
    /\ net = <<>>
    /\ fs = [dirs |-> {}, files |-> {}]
    /\ result = <<>>
    /\ skipped = <<>>
    /\ warnings = <<>>
    /\ err = NoErr

InitTranslations ==
    \/ \E flat \in SeqsOf(Contrasts, 1, MaxContrasts) :
           \E items \in ContrastItemsOf(flat) :
               \E analytics \in AnalyticsOf(items) :
                   Called("get_comparison_translations", Document(analytics), "call")
    \/ \E doc \in MalformedDocuments :
           Called("get_comparison_translations", doc, "call")

\* compare_dict = __get_comparison_translations(parsed_config)
ApplyTranslations ==
    /\ op = "get_comparison_translations"
    /\ pc = "call"
    /\ LET r == get_comparison_translations(args)
       IN  /\ result' = r.value
           /\ err' = IF r.raised = "none" THEN NoErr ELSE Raise(r.raised, "")
    /\ pc' = "done"
    /\ UNCHANGED <<op, args, i, file_name, loaded_data, loaded_config, net, fs,
                   skipped, warnings>>

SpecTranslations == InitTranslations /\ [][ApplyTranslations]_vars

InitHeaders ==
    \E columns \in SeqsOf(Headers(MaxSegs), 1, MaxCols), table \in TranslationTables :
        Called("translate_data_headers",
               [experiment_data |-> columns, translation_table |-> table], "call")

\* readable_data = __translate_data_headers(loaded_data, compare_dict)
ApplyHeaders ==
    /\ op = "translate_data_headers"
    /\ pc = "call"
    /\ LET r == translate_data_headers(args.experiment_data, args.translation_table)
       IN  /\ result' = r.value
           /\ err' = IF r.raised = "none" THEN NoErr ELSE Raise(r.raised, "")
    /\ pc' = "done"
    /\ UNCHANGED <<op, args, i, file_name, loaded_data, loaded_config, net, fs,
                   skipped, warnings>>

SpecHeaders == InitHeaders /\ [][ApplyHeaders]_vars

----------------------------------------------------------------------------
(* ExperimentFetcher: get_atlas_experiment, called on its own or by the    *)
(* batch generator.                                                        *)

base_url == "ftp://ftp.ebi.ac.uk/pub/databases/microarray/data/atlas/experiments/"

E_GEOD_1 == <<"E", "-", "G", "E", "O", "D", "-", "1">>
E_MTAB_22 == <<"E", "-", "M", "T", "A", "B", "-", "2", "2">>
A_AFFY_1 == <<"A", "-", "A", "F", "F", "Y", "-", "1">>

\* accessions the validator rejects: no digits, a wrong first letter, a
\* three-character middle part
InvalidAccessions ==
    {<<"E", "-", "G", "E", "O", "D", "-">>,
     <<"x", "-", "G", "E", "O", "D", "-", "1">>,
     <<"E", "-", "G", "E", "O", "-", "1">>}

\* an experiment record as the search returns it: 'arraydesign' is a list of
\* dicts and is absent for experiments without an array design
ExperimentRecord(accession, designs) ==
    IF designs = <<>> THEN ("accession" :> accession)
    ELSE ("accession" :> accession) @@ ("arraydesign" :> designs)

ArrayDesigns == {<<>>, <<[accession |-> A_AFFY_1]>>}

\* the tables read_csv can return, as their column names
GeneID == <<"G", "e", "n", "e">>
FetchTables ==
    {<<GeneID, JoinSegments(g1_g2, <<<<"p">>>>)>>,
     <<JoinSegments(g12_g3, <<<<"p">>, <<"v">>>>)>>}

\* the configuration documents xmltodict can return
FetchDocuments ==
    {Document(PyDict("contrasts" :> <<<<"contrast", PyDict(Contrast(g1_g2, <<"K", "O">>))>>>>)),
     Document(PyList(<<("contrasts" :> <<<<"contrast", PyDict(Contrast(g1_g2, <<"K", "O">>))>>>>),
                       ("contrasts" :> <<<<"contrast", PyList(<<Contrast(g12_g3, <<"W", "T">>),
                                                                 Contrast(g1_g2, <<"W", "T">>)>>)>>>>)>>)),
     Document(PyDict("contrasts" :> <<<<"contrast", PyDict("@id" :> g1_g2)>>>>))}

\* experiment['arraydesign'][0] exists (else a KeyError or an IndexError)
HasArrayDesign(experiment) ==
    IF "arraydesign" \in DOMAIN experiment THEN experiment["arraydesign"] # <<>>
    ELSE FALSE

\* the table files the bulk data root serves for an experiment
ServedTablePaths(experiment) ==
    LET a == Str(experiment["accession"])
    IN  {a \o "/" \o a \o "-analytics.tsv"} \cup
        (IF HasArrayDesign(experiment)
         THEN {a \o "/" \o a \o "_" \o Str(experiment["arraydesign"][1].accession)
                 \o "-analytics.tsv"}
         ELSE {})

\* what pd.read_csv(url, sep='\t') can do: raise URLError (transport, missing
\* file), raise ParserError (content), or return a table
ReadCsvOutcomes(experiment, path) ==
    {[ok |-> FALSE, raised |-> k, table |-> <<>>] : k \in {"URLError", "ParserError"}} \cup
    (IF Str(path) \in ServedTablePaths(experiment)
     THEN {[ok |-> TRUE, raised |-> "none", table |-> t] : t \in FetchTables}
     ELSE {})

Request(call, url, ok) == [call |-> call, url |-> url, ok |-> ok]

\* the experiment get_atlas_experiment was called with
Experiment == IF op = "get_atlas_experiment" THEN args ELSE args[i]

\* dict.values() of a Python 2 dict: every value once, in an order the
\* hashing decides
ValuesOrders(d) ==
    {[k \in 1..Cardinality(DOMAIN d) |-> d[keys[k]]] :
        keys \in {ks \in [1..Cardinality(DOMAIN d) -> DOMAIN d] :
                     \A a, b \in 1..Cardinality(DOMAIN d) : a # b => ks[a] # ks[b]}}

\* except ValueError: pass / except IOError: pass
BatchSwallows(kind) == IsInstance(kind, "ValueError") \/ IsInstance(kind, "IOError")

\* get_atlas_experiment returns value: its caller gets it, or the generator
\* stores it in the experiment, yields the experiment and goes on
FetchReturns(value) ==
    /\ file_name' = <<>>
    /\ loaded_data' = <<>>
    /\ loaded_config' = <<>>
    /\ IF op = "get_atlas_experiment"
       THEN /\ result' = value
            /\ pc' = "done"
            /\ UNCHANGED <<i, skipped, err>>
       ELSE /\ result' = Append(result, Experiment @@ ("data" :> value[1])
                                                   @@ ("contrasts" :> value[2]))
            /\ i' = i + 1
            /\ pc' = "batch_next"
            /\ UNCHANGED <<skipped, err>>

\* get_atlas_experiment raises e: its caller gets it, or the generator
\* swallows it when an except clause matches and ends with it otherwise
FetchRaises(e) ==
    /\ file_name' = <<>>
    /\ loaded_data' = <<>>
    /\ loaded_config' = <<>>
    /\ IF op = "get_atlas_experiments" /\ BatchSwallows(e.kind)
       THEN /\ skipped' = Append(skipped, i)
            /\ i' = i + 1
            /\ pc' = "batch_next"
            /\ UNCHANGED <<result, err>>
       ELSE /\ err' = e
            /\ pc' = "done"
            /\ UNCHANGED <<i, result, skipped>>

\* lines 101-104
FetchValidate ==
    /\ pc = "fetch_validate"
    /\ IF ~is_valid_experiment_accession(Experiment["accession"])
       THEN /\ FetchRaises(IF "acession" \in DOMAIN Experiment
                           THEN Raise("ValueError",
                                      "Invalid accession: " \o Str(Experiment["acession"]))
                           ELSE Raise("KeyError", "acession"))
            /\ UNCHANGED <<op, args, net, fs, warnings>>
       ELSE /\ file_name' = Experiment["accession"]
            /\ pc' = "fetch_primary"
            /\ UNCHANGED <<op, args, i, loaded_data, loaded_config, net, fs, result,
                           skipped, warnings, err>>

\* lines 106-110: the try block; the bare except catches everything
FetchPrimary ==
    /\ pc = "fetch_primary"
    /\ \/ /\ ~HasArrayDesign(Experiment)
          /\ pc' = "fetch_fallback"
          /\ UNCHANGED <<file_name, loaded_data, net>>
       \/ /\ HasArrayDesign(Experiment)
          /\ LET name == file_name \o <<"/">> \o file_name \o <<"_">>
                             \o Experiment["arraydesign"][1].accession
                             \o <<"-", "a", "n", "a", "l", "y", "t", "i", "c", "s",
                                  ".", "t", "s", "v">>
             IN  /\ file_name' = name
                 /\ \E out \in ReadCsvOutcomes(Experiment, name) :
                        /\ net' = Append(net, Request("read_csv", base_url \o Str(name), out.ok))
                        /\ IF out.ok
                           THEN loaded_data' = out.table /\ pc' = "fetch_config"
                           ELSE loaded_data' = loaded_data /\ pc' = "fetch_fallback"
    /\ UNCHANGED <<op, args, i, loaded_config, fs, result, skipped, warnings, err>>

\* the fallback name as line 112 computes it, from file_name as line 107
\* left it
FallbackName(name, experiment) ==
    name \o <<"/">> \o name
        \o <<"-", "a", "n", "a", "l", "y", "t", "i", "c", "s", ".", "t", "s", "v">>

\* lines 111-116: the alternate filename; an IOError is raised again and
\* any other exception leaves the function as it is
FetchFallback ==
    /\ pc = "fetch_fallback"
    /\ LET name == FallbackName(file_name, Experiment)
       IN  \E out \in ReadCsvOutcomes(Experiment, name) :
               /\ net' = Append(net, Request("read_csv", base_url \o Str(name), out.ok))
               /\ IF out.ok
                  THEN /\ file_name' = name
                       /\ loaded_data' = out.table
                       /\ pc' = "fetch_config"
                       /\ UNCHANGED <<i, loaded_config, result, skipped, err>>
                  ELSE FetchRaises(Raise(out.raised, ""))
    /\ UNCHANGED <<op, args, fs, warnings>>

\* what urlopen(configuration_url), read() and xmltodict.parse can do
ConfigOutcomes ==
    {[raised |-> k, doc |-> <<>>] : k \in {"URLError", "ExpatError"}} \cup
    {[raised |-> "none", doc |-> d] : d \in FetchDocuments}

\* lines 119-127
FetchConfig ==
    /\ pc = "fetch_config"
    /\ LET a == Str(Experiment["accession"])
           configuration_url == base_url \o a \o "/" \o a \o "-configuration.xml"
       IN  \E out \in ConfigOutcomes :
               /\ net' = Append(net, Request("urlopen", configuration_url,
                                             out.raised # "URLError"))
               /\ IF out.raised # "none"
                  THEN FetchRaises(Raise(out.raised, ""))
                  ELSE LET compare_dict == get_comparison_translations(out.doc)
                           readable_data ==
                               translate_data_headers(loaded_data, compare_dict.value)
                       IN  IF compare_dict.raised # "none"
                           THEN FetchRaises(Raise(compare_dict.raised, ""))
                           ELSE IF readable_data.raised # "none"
                                THEN FetchRaises(Raise(readable_data.raised, ""))
                                ELSE \E values \in ValuesOrders(compare_dict.value) :
                                         FetchReturns(<<readable_data.value, values>>)
    /\ UNCHANGED <<op, args, fs, warnings>>

InitExperiment ==
    \E accession \in {E_GEOD_1, E_MTAB_22} \cup InvalidAccessions,
       designs \in ArrayDesigns,
       extra \in {<<>>, <<"acession">>} :
        Called("get_atlas_experiment",
               IF extra = <<>> THEN ExperimentRecord(accession, designs)
               ELSE ExperimentRecord(accession, designs) @@ ("acession" :> accession),
               "fetch_validate")

NextExperiment == FetchValidate \/ FetchPrimary \/ FetchFallback \/ FetchConfig

SpecExperiment == InitExperiment /\ [][NextExperiment]_vars

----------------------------------------------------------------------------
(* BatchOrchestrator, full-experiment batch: get_atlas_experiments.  The   *)
(* caller iterates the generator to its end.                               *)

\* lines 79-82: the next experiment of the filtering generator expression,
\* or the end of the iteration
BatchNext ==
    /\ pc = "batch_next"
    /\ \/ /\ i > Len(args)
          /\ pc' = "done"
          /\ i' = i
       \/ /\ i <= Len(args)
          /\ ~is_valid_experiment_accession(args[i]["accession"])
          /\ pc' = "batch_next"
          /\ i' = i + 1
       \/ /\ i <= Len(args)
          /\ is_valid_experiment_accession(args[i]["accession"])
          /\ pc' = "fetch_validate"
          /\ i' = i
    /\ UNCHANGED <<op, args, file_name, loaded_data, loaded_config, net, fs, result,
                   skipped, warnings, err>>

BatchRecords ==
    {ExperimentRecord(E_GEOD_1, <<[accession |-> A_AFFY_1]>>),
     ExperimentRecord(E_MTAB_22, <<>>),
     ExperimentRecord(<<"E", "-", "G", "E", "O", "D", "-">>, <<>>)}

InitExperiments ==
    \E experiments \in SeqsOf(BatchRecords, 0, MaxBatch) :
        Called("get_atlas_experiments", experiments, "batch_next")

NextExperiments == BatchNext \/ FetchValidate \/ FetchPrimary \/ FetchFallback \/ FetchConfig

SpecExperiments == InitExperiments /\ [][NextExperiments]_vars

----------------------------------------------------------------------------
(* BatchOrchestrator, summary batch: get_atlas_experiment_summaries.       *)

\* valid_accessions = [x for x in accessions if __is_valid_experiment_accession(x)]
ValidAccessions(accessions) == SelectSeq(accessions, is_valid_experiment_accession)

\* a faulty check that lacks the comparison of the two lengths
RejectsOnlyWhenNoneValid(accessions) == Len(ValidAccessions(accessions)) = 0
\* lines 143-147: the two conditions that raise "No valid accessions found"
SummariesRejects(accessions) ==
    \/ Len(ValidAccessions(accessions)) = 0
    \/ Len(ValidAccessions(accessions)) # Len(accessions)

\* lines 140-147
SummariesValidate ==
    /\ pc = "summaries_validate"
    /\ IF SummariesRejects(args.accessions)
       THEN /\ err' = Raise("ValueError", "No valid accessions found")
            /\ pc' = "done"
       ELSE /\ err' = err
            /\ pc' = "dir_setup"
    /\ UNCHANGED <<op, args, i, file_name, loaded_data, loaded_config, net, fs,
                   result, skipped, warnings>>

\* line 150 and __dir_setup: os.makedirs creates the directory, or raises
\* OSError, which is ignored when its errno is EEXIST
DirSetup ==
    /\ pc = "dir_setup"
    /\ \/ /\ fs' = [fs EXCEPT !.dirs = @ \cup {args.directory}]
          /\ pc' = "summaries_loop"
          /\ err' = err
       \/ \E errno \in {"EEXIST", "EACCES"} :
              IF errno = "EEXIST"
              THEN fs' = fs /\ pc' = "summaries_loop" /\ err' = err
              ELSE fs' = fs /\ pc' = "done" /\ err' = Raise("OSError", errno)
    /\ UNCHANGED <<op, args, i, file_name, loaded_data, loaded_config, net, result,
                   skipped, warnings>>

\* filename and full_url of get_atlas_experiment_summary, lines 172-173
SummaryFilename(accession) == Str(accession) \o "-atlasExperimentSummary.Rdata"
SummaryUrl(accession) ==
    base_url \o "/" \o Str(accession) \o "/" \o SummaryFilename(accession)

\* lines 152-156 with get_atlas_experiment_summary, lines 172-186: one
\* accession of the loop; both exceptions are raised again by both functions
SummaryFetch ==
    /\ pc = "summaries_loop"
    /\ i <= Len(ValidAccessions(args.accessions))
    /\ LET accession == ValidAccessions(args.accessions)[i]
       IN  \/ /\ net' = Append(net, Request("urlopen", SummaryUrl(accession), FALSE))
              /\ err' = Raise("URLError", "")
              /\ pc' = "done"
              /\ UNCHANGED <<i, fs, result>>
           \/ /\ net' = Append(net, Request("urlopen", SummaryUrl(accession), TRUE))
              /\ err' = Raise("IOError", "")
              /\ pc' = "done"
              /\ UNCHANGED <<i, fs, result>>
           \/ /\ net' = Append(net, Request("urlopen", SummaryUrl(accession), TRUE))
              /\ fs' = [fs EXCEPT !.files = @ \cup {args.directory \o SummaryFilename(accession)}]
              /\ result' = Append(result, accession)
              /\ i' = i + 1
              /\ pc' = "summaries_loop"
              /\ err' = err
    /\ UNCHANGED <<op, args, file_name, loaded_data, loaded_config, skipped, warnings>>

\* line 158
SummariesReturn ==
    /\ pc = "summaries_loop"
    /\ i > Len(ValidAccessions(args.accessions))
    /\ pc' = "done"
    /\ UNCHANGED <<op, args, i, file_name, loaded_data, loaded_config, net, fs,
                   result, skipped, warnings, err>>

SummaryAccessions == {E_GEOD_1, E_MTAB_22, <<"b", "a", "d", "-", "i", "d">>}

InitSummaries ==
    \E accessions \in SeqsOf(SummaryAccessions, 0, MaxBatch), directory \in {"data/", "."} :
        Called("get_atlas_experiment_summaries",
               [accessions |-> accessions, directory |-> directory],
               "summaries_validate")

NextSummaries == SummariesValidate \/ DirSetup \/ SummaryFetch \/ SummariesReturn

SpecSummaries == InitSummaries /\ [][NextSummaries]_vars

----------------------------------------------------------------------------
(* SearchClient: search_atlas_experiments.                                 *)

search_url == "https://www.ebi.ac.uk/arrayexpress/json/v3/experiments"

PyNone == [type |-> "None", v |-> <<>>]
PyStr(chars) == [type |-> "str", v |-> chars]

\* the characters the model's strings use, in the order of their codes
CharOrder ==
    <<" ", "-", "0", "1", "2", "3", "4", "5", "6", "7", "8", "9",
      "A", "B", "C", "D", "E", "F", "G", "H", "I", "J", "K", "L", "M",
      "N", "O", "P", "Q", "R", "S", "T", "U", "V", "W", "X", "Y", "Z", "_",
      "a", "b", "c", "d", "e", "f", "g", "h", "i", "j", "k", "l", "m",
      "n", "o", "p", "q", "r", "s", "t", "u", "v", "w", "x", "y", "z">>
Ord(c) == CHOOSE k \in 1..Len(CharOrder) : CharOrder[k] = c

\* a < b for Python strings
RECURSIVE StrLess(_, _)
StrLess(a, b) ==
    IF b = <<>> THEN FALSE
    ELSE IF a = <<>> THEN TRUE
    ELSE IF Head(a) # Head(b) THEN Ord(Head(a)) < Ord(Head(b))
    ELSE StrLess(Tail(a), Tail(b))

\* a < b for tuples of strings
RECURSIVE TupleLess(_, _)
TupleLess(a, b) ==
    IF b = <<>> THEN FALSE
    ELSE IF a = <<>> THEN TRUE
    ELSE IF Head(a) # Head(b) THEN StrLess(Head(a), Head(b))
    ELSE TupleLess(Tail(a), Tail(b))

\* itemgetter('species', 'type', 'accession')
SortKey(r) == <<r.species, r.type, r.accession>>

\* sorted(result_set, key=...): stable, ascending
RECURSIVE InsertSorted(_, _)
InsertSorted(sorted, r) ==
    IF sorted = <<>> THEN <<r>>
    ELSE IF TupleLess(SortKey(r), SortKey(Head(sorted)))
         THEN <<r>> \o sorted
         ELSE <<Head(sorted)>> \o InsertSorted(Tail(sorted), r)
RECURSIVE SortedBy(_)
SortedBy(rs) ==
    IF rs = <<>> THEN <<>>
    ELSE InsertSorted(SortedBy(SubSeq(rs, 1, Len(rs) - 1)), rs[Len(rs)])

\* lines 60-62
Summarised(experiment) ==
    [species |-> experiment.organism, type |-> experiment.experimenttype,
     accession |-> experiment.accession, title |-> experiment.name]

\* " OR ".join(search)
RECURSIVE JoinOr(_)
JoinOr(terms) ==
    IF Len(terms) = 1 THEN terms[1]
    ELSE terms[1] \o <<" ", "O", "R", " ">> \o JoinOr(Tail(terms))

\* lines 31-42: the query parameters
Query(search, species) ==
    LET terms == IF search.type = "None" THEN <<>> ELSE search.v
    IN  ("gxa" :> [type |-> "bool", v |-> TRUE])
        @@ (IF terms = <<>> THEN EmptyDict
            ELSE IF Len(terms) > 1 THEN ("keywords" :> PyStr(JoinOr(terms)))
            ELSE ("keywords" :> PyList(terms)))
        @@ (IF species = <<>> THEN EmptyDict ELSE ("species" :> PyStr(species)))

\* str.format of a query value: a one-element list of strings prints as its
\* repr
Format(value) ==
    IF value.type = "list" THEN "['" \o Str(value.v[1]) \o "']" ELSE Str(value.v)

\* lines 54-56: the arguments of format are looked up in the query
NoResults(query) ==
    IF "keywords" \notin DOMAIN query THEN Raise("KeyError", "keywords")
    ELSE IF "species" \notin DOMAIN query THEN Raise("KeyError", "species")
    ELSE Raise("ValueError",
               "No experiments found for search criteria " \o Format(query["keywords"])
                   \o " and species " \o Format(query["species"]))

Hs == <<"H", "s">>
Mm == <<"M", "m">>
SearchHits ==
    {[organism |-> Mm, experimenttype |-> <<"a">>, name |-> <<"x">>,
      accession |-> <<"E", "-", "G", "E", "O", "D", "-", "2">>],
     [organism |-> Hs, experimenttype |-> <<"r">>, name |-> <<"y">>,
      accession |-> E_GEOD_1],
     [organism |-> Hs, experimenttype |-> <<"a">>, name |-> <<"z">>,
      accession |-> <<"E", "-", "G", "E", "O", "D", "-", "1", "0">>]}

\* what the request can do: requests.get raises ConnectionError,
\* raise_for_status raises HTTPError, json.loads raises ValueError, or the
\* document parses, with experiments.total the number of experiments
SearchOutcomes ==
    {[raised |-> k, total |-> 0, experiment |-> <<>>] :
        k \in {"ConnectionError", "HTTPError", "ValueError"}} \cup
    {[raised |-> "none", total |-> Len(es), experiment |-> es] :
        es \in SeqsOf(SearchHits, 0, MaxFound)}

\* the whole of search_atlas_experiments
Search ==
    /\ pc = "search"
    /\ LET query == Query(args.search, args.species)
       IN  \E out \in SearchOutcomes :
               /\ net' = Append(net, [call |-> "requests.get", url |-> search_url,
                                      params |-> query, response |-> out])
               /\ IF out.raised # "none"
                  THEN err' = Raise(out.raised, "") /\ result' = result
                  ELSE IF out.total = 0
                       THEN err' = NoResults(query) /\ result' = result
                       ELSE /\ err' = err
                            /\ result' = IF args.summary
                                         THEN SortedBy([k \in 1..Len(out.experiment) |->
                                                  Summarised(out.experiment[k])])
                                         ELSE out.experiment
    /\ pc' = "done"
    /\ UNCHANGED <<op, args, i, file_name, loaded_data, loaded_config, fs, skipped,
                   warnings>>

SearchTerms == {<<"c", "a", "n", "c", "e", "r">>, <<"l", "u", "n", "g">>}

InitSearch ==
    \E search \in {PyNone} \cup {PyList(terms) : terms \in SeqsOf(SearchTerms, 0, MaxTerms)},
       species \in {<<>>, <<"h", "o", "m", "o", " ", "s", "a", "p", "i", "e", "n", "s">>},
       summary \in BOOLEAN :
        Called("search_atlas_experiments",
               [search |-> search, species |-> species, summary |-> summary], "search")

SpecSearch == InitSearch /\ [][Search]_vars

----------------------------------------------------------------------------
(* Properties of the two pure functions. *)

\* the spec's one-or-many normalisation: a single object is a list of one
OneOrMany(x) == IF IsList(x) THEN x.v ELSE <<x.v>>

RECURSIVE Concat(_)
Concat(seqs) == IF seqs = <<>> THEN <<>> ELSE Head(seqs) \o Concat(Tail(seqs))

AnalyticsItems(doc) == OneOrMany(doc.configuration.analytics)

WellFormedDocument(doc) ==
    \A a \in 1..Len(AnalyticsItems(doc)) :
        LET item == AnalyticsItems(doc)[a]
        IN  /\ "contrasts" \in DOMAIN item
            /\ \A g \in 1..Len(item["contrasts"]) :
                   LET cs == OneOrMany(item["contrasts"][g][2])
                   IN  \A c \in 1..Len(cs) : {"@id", "name"} \subseteq DOMAIN cs[c]

\* the contrast objects of a document in encounter order: analytics items in
\* order, then contrast groups, then contrasts
Encounter(doc) ==
    Concat([a \in 1..Len(AnalyticsItems(doc)) |->
        LET items == AnalyticsItems(doc)[a]["contrasts"]
        IN  Concat([g \in 1..Len(items) |-> OneOrMany(items[g][2])])])

\* id -> the name of the last contrast of cs that has this id
LastWins(cs) ==
    [id \in {cs[k]["@id"] : k \in 1..Len(cs)} |->
        LET last == CHOOSE k \in 1..Len(cs) :
                        /\ cs[k]["@id"] = id
                        /\ \A j \in (k + 1)..Len(cs) : cs[j]["@id"] # id
        IN  cs[last]["name"]]

\* the same document with every single object wrapped in a one-element list
Normalized(doc) ==
    Document(PyList([a \in 1..Len(AnalyticsItems(doc)) |->
        LET items == AnalyticsItems(doc)[a]["contrasts"]
        IN  "contrasts" :> [g \in 1..Len(items) |->
                <<items[g][1], PyList(OneOrMany(items[g][2]))>>]]))

TranslationsDone == op = "get_comparison_translations" /\ pc = "done"

\* C10: for a well-formed document the translator's result does not depend
\* on the document's shape (a single object gives what a one-element list
\* holding it gives, at the analytics level and at the contrast level), it
\* has an entry for every contrast encountered, and for an id that occurs
\* more than once the name of the last occurrence in encounter order is kept.
C10_ShapeIndependentLastWins ==
    (TranslationsDone /\ WellFormedDocument(args)) =>
        /\ err.kind = "none"
        /\ result = LastWins(Encounter(args))
        /\ \A k \in 1..Len(Encounter(args)) : Encounter(args)[k]["@id"] \in DOMAIN result
        /\ result = get_comparison_translations(Normalized(args)).value

\* a single analytics object holding a single contrast object and a later
\* contrast with the same id and another name, which is the name kept
C10_Witness ==
    /\ TranslationsDone
    /\ WellFormedDocument(args)
    /\ ~IsList(args.configuration.analytics)
    /\ ~IsList(args.configuration.analytics.v["contrasts"][1][2])
    /\ \E j, k \in 1..Len(Encounter(args)) :
           /\ j < k
           /\ k = Len(Encounter(args))
           /\ Encounter(args)[j]["@id"] = Encounter(args)[k]["@id"]
           /\ Encounter(args)[j]["name"] # Encounter(args)[k]["name"]
           /\ result[Encounter(args)[k]["@id"]] = Encounter(args)[k]["name"]

FirstDot(header) == CHOOSE k \in 1..Len(header) :
                        header[k] = "." /\ \A j \in 1..(k - 1) : header[j] # "."
BeforeFirstDot(header) == SubSeq(header, 1, FirstDot(header) - 1)
AfterFirstDot(header) == SubSeq(header, FirstDot(header) + 1, Len(header))

HeadersDone == op = "translate_data_headers" /\ pc = "done"

AllPrefixesTranslated(columns, table) ==
    \A k \in 1..Len(columns) :
        IsContrastHeader(columns[k]) => BeforeFirstDot(columns[k]) \in DOMAIN table

\* C9: with a contrast map that has every candidate prefix, each header
\* <contrast id>.<suffix> becomes <mapped name>.<suffix>, the suffix being
\* the whole remainder after the first '.', every other header is unchanged,
\* and the number and order of columns are preserved.
C9_WholeSuffixKept ==
    (HeadersDone /\ AllPrefixesTranslated(args.experiment_data, args.translation_table)) =>
        /\ err.kind = "none"
        /\ Len(result) = Len(args.experiment_data)
        /\ \A k \in 1..Len(args.experiment_data) :
               LET header == args.experiment_data[k]
               IN  result[k] =
                       IF IsContrastHeader(header)
                       THEN args.translation_table[BeforeFirstDot(header)]
                                \o <<".">> \o AfterFirstDot(header)
                       ELSE header

----------------------------------------------------------------------------
(* Properties of get_atlas_experiment. *)

AnalyticsUrl(stem) == base_url \o stem \o "-analytics.tsv"

\* <root>/A/A_D-analytics.tsv
PrimaryUrl(experiment) ==
    AnalyticsUrl(Str(experiment["accession"]) \o "/" \o Str(experiment["accession"])
                     \o "_" \o Str(experiment["arraydesign"][1].accession))

\* <root>/A/A-analytics.tsv
AlternateUrl(experiment) ==
    AnalyticsUrl(Str(experiment["accession"]) \o "/" \o Str(experiment["accession"]))

IsTableRead(request) == request.call = "read_csv"

\* the primary table retrieval was requested and failed, and the function
\* has gone past its fallback
PrimaryFailed ==
    /\ op = "get_atlas_experiment"
    /\ pc \in {"fetch_config", "done"}
    /\ net # <<>>
    /\ net[1].call = "read_csv"
    /\ HasArrayDesign(args)
    /\ net[1].url = PrimaryUrl(args)
    /\ ~net[1].ok

\* C1: whenever the retrieval of A/A_D-analytics.tsv fails, exactly one
\* further table retrieval is attempted, for exactly A/A-analytics.tsv; if
\* that fails too the error reaches the caller and no configuration
\* document is requested.
C1_FallbackRequestsAlternateFile ==
    PrimaryFailed =>
        /\ Len(SelectSeq(net, IsTableRead)) = 2
        /\ net[2].call = "read_csv"
        /\ net[2].url = AlternateUrl(args)
        /\ ~net[2].ok => (pc = "done" /\ err.kind # "none" /\ Len(net) = 2)

\* C8: for a record whose accession does not match the grammar the call
\* fails with the ValueError for 'Invalid accession' and no table or
\* configuration retrieval is attempted.
C8_InvalidAccessionRaisesValueError ==
    (op = "get_atlas_experiment" /\ ~is_valid_experiment_accession(args["accession"])) =>
        /\ net = <<>>
        /\ pc = "done" => err.kind = "ValueError"

----------------------------------------------------------------------------
(* Properties of get_atlas_experiments. *)

ValidRecords ==
    {k \in 1..Len(args) : is_valid_experiment_accession(args[k]["accession"])}

BatchDone == op = "get_atlas_experiments" /\ pc = "done"

\* C2: whatever makes get_atlas_experiment fail for a record, the record is
\* skipped and the batch goes on: the iteration ends without an error and
\* every valid record was either fetched or skipped.
C2_FailingRecordSkippedBatchGoesOn ==
    BatchDone =>
        /\ err.kind = "none"
        /\ Len(result) + Len(skipped) = Cardinality(ValidRecords)

\* C5: with no valid record in the input the batch fails with the
\* no-valid-accessions error, and no retrieval is attempted.
C5_NoValidRecordRaises ==
    (op = "get_atlas_experiments" /\ ValidRecords = {}) =>
        /\ net = <<>>
        /\ pc = "done" => err = Raise("ValueError", "No valid accessions found")

\* the input records that are not in the returned sequence: filtered out
\* for an invalid accession, or skipped because the fetch failed
Dropped ==
    {k \in 1..Len(args) :
        \/ ~is_valid_experiment_accession(args[k]["accession"])
        \/ \E j \in 1..Len(skipped) : skipped[j] = k}

\* C6: at the end of a run every input record that is not in the returned
\* sequence has exactly one warning that identifies it.
C6_EveryDroppedRecordWarned ==
    BatchDone =>
        \A k \in Dropped :
            Cardinality({w \in 1..Len(warnings) : warnings[w] = args[k]["accession"]})
                = Cardinality({d \in Dropped : args[d]["accession"] = args[k]["accession"]})

----------------------------------------------------------------------------
(* Properties of get_atlas_experiment_summaries. *)

HasInvalidAccession ==
    \E k \in 1..Len(args.accessions) : ~is_valid_experiment_accession(args.accessions[k])

\* C3: when every input accession is valid, a failure while fetching or
\* writing one accession's summary does not abort the batch: every
\* accession is requested, in input order, and the call returns the list of
\* those that succeeded.
C3_SummaryFailureNotFatal ==
    (/\ op = "get_atlas_experiment_summaries"
     /\ pc = "done"
     /\ args.accessions # <<>>
     /\ ~HasInvalidAccession
     /\ err.kind # "OSError") =>
        /\ err.kind = "none"
        /\ Len(net) = Len(args.accessions)
        /\ \A k \in 1..Len(net) : net[k].url = SummaryUrl(args.accessions[k])
        /\ \A k \in 1..Len(args.accessions) :
               (args.directory \o SummaryFilename(args.accessions[k]) \in fs.files)
                   <=> (\E r \in 1..Len(result) : result[r] = args.accessions[k])

\* C4: if an input accession is invalid the batch fails with the
\* no-valid-accessions error before any effect: no directory is created, no
\* summary is requested and no file is written.
C4_InvalidAccessionFailsBeforeAnyEffect ==
    (op = "get_atlas_experiment_summaries" /\ HasInvalidAccession) =>
        /\ fs = [dirs |-> {}, files |-> {}]
        /\ net = <<>>
        /\ result = <<>>
        /\ pc \in {"summaries_validate", "done"}
        /\ pc = "done" => err = Raise("ValueError", "No valid accessions found")

\* the batch has failed on an input that mixes valid and invalid accessions
C4_Witness ==
    /\ op = "get_atlas_experiment_summaries"
    /\ pc = "done"
    /\ HasInvalidAccession
    /\ ValidAccessions(args.accessions) # <<>>
    /\ err = Raise("ValueError", "No valid accessions found")
    /\ fs.dirs = {}

----------------------------------------------------------------------------
(* Properties of search_atlas_experiments. *)

\* C7: when the response reports experiments.total = 0 the call fails with
\* the no-results ValueError, whose message carries the query parameters
\* that were sent, whatever the search terms, species and summary flag.
C7_ZeroTotalRaisesNoResults ==
    (/\ op = "search_atlas_experiments"
     /\ pc = "done"
     /\ net[1].response.raised = "none"
     /\ net[1].response.total = 0) =>
        /\ err.kind = "ValueError"
        /\ {"keywords", "species"} \subseteq DOMAIN net[1].params =>
               err.msg = "No experiments found for search criteria "
                             \o Format(net[1].params["keywords"]) \o " and species "
                             \o Format(net[1].params["species"])

====
